---- MODULE Spec2Model ----
(***************************************************************************)
(* A state-machine model of rust-ed's modal dispatcher (Application), its  *)
(* viewport arithmetic (Rect, Vector2, RenderOpts) and the text buffer it  *)
(* drives (Editor).                                                        *)
(*                                                                         *)
(* Conventions                                                             *)
(*  - a String is a sequence of one-character strings; "\n" is the row     *)
(*    separator and "\r" a carriage return;                                *)
(*  - a Vector2 is a pair <<x, y>>;                                        *)
(*  - an f64 is an exact rational [n |-> numerator, d |-> denominator > 0] *)
(*    in lowest terms; the render scale, which the code only ever changes  *)
(*    in steps of 0.1 or sets to 0 or 1, is kept as its number of tenths;  *)
(*  - a panic (an unwrap of an Err) stops the process where it happens:    *)
(*    the statements after it never run and no further event is read.      *)
(***************************************************************************)
EXTENDS Integers, Sequences, FiniteSets, TLC

\* ------------------------------------------------------------------ bounds

\* longest row the model lets an edit produce
MaxCols == 2
\* most rows the model lets an edit produce
MaxRows == 3
\* longest text in the scratch prompt buffer
MaxPrompt == 2
\* deepest Prompt(Prompt(..)) nesting the model follows
MaxNest == 2
\* largest |coordinate| of the view location that pan and zoom may produce
MaxPan == 1
\* most zoom-out steps of 0.1 above scale 1.0 (zooming in ends by itself)
MaxZoom == 1

\* the printable characters
Chars == {"a"}
NL == "\n"
CR == "\r"

\* ------------------------------------------------------------ input events
\* InputEvent: Keyboard(KeyEvent), Mouse(MouseEvent), or anything else.
\* An event is a value the actions share between TLC's workers: its fields are
\* written in the order TLC keeps them in, the order in which their names first
\* appear in the module, which is why this section comes first.

Key(k) == [type |-> "Keyboard", key |-> k, ch |-> "", x |-> 0, y |-> 0]

Char(c) == [type |-> "Keyboard", key |-> "Char", ch |-> c, x |-> 0, y |-> 0]

Ctrl(c) == [type |-> "Keyboard", key |-> "Ctrl", ch |-> c, x |-> 0, y |-> 0]

Press(x, y) == [type |-> "Mouse", key |-> "Press", ch |-> "", x |-> x, y |-> y]

Release(x, y) == [type |-> "Mouse", key |-> "Release", ch |-> "", x |-> x, y |-> y]

Unsupported == [type |-> "Unsupported", key |-> "", ch |-> "", x |-> 0, y |-> 0]

\* the pattern Event::Keyboard(KeyEvent::<k>) of a match arm
IsKey(event, k) == event.key = k

\* the pattern Event::Keyboard(KeyEvent::Char(c)) of a match arm
IsChar(event, c) == event.key = "Char" /\ event.ch = c

\* the pattern Event::Keyboard(KeyEvent::Ctrl(c)) of a match arm
IsCtrl(event, c) == event.key = "Ctrl" /\ event.ch = c

\* ------------------------------------------------------------- f64 values

Abs(i) == IF i < 0 THEN -i ELSE i

Min(i, j) == IF i < j THEN i ELSE j

Max(i, j) == IF i < j THEN j ELSE i

RECURSIVE Gcd(_, _)
Gcd(i, j) == IF j = 0 THEN i ELSE Gcd(j, i % j)

\* the rational n/d in lowest terms; a division by 0 gives what f64 gives:
\* an infinity (1/0, -1/0) or, for 0/0, a NaN
Rat(n, d) ==
    LET s == IF d < 0 THEN -1 ELSE 1
        g == IF n = 0 /\ d = 0 THEN 1 ELSE Gcd(Abs(n), Abs(d))
    IN  [n |-> (s * n) \div g, d |-> (s * d) \div g]

IntR(i) == [n |-> i, d |-> 1]

RAdd(p, q) == Rat(p.n * q.d + q.n * p.d, p.d * q.d)

\* p + i for an integer i: still in lowest terms
RAddInt(p, i) == [n |-> p.n + i * p.d, d |-> p.d]

RSub(p, q) == Rat(p.n * q.d - q.n * p.d, p.d * q.d)

RLt(p, q) == p.n * q.d < q.n * p.d

RLe(p, q) == p.n * q.d <= q.n * p.d

\* i / j of two integers, rounded toward zero (an `as i32` cast, i32 division)
TruncDiv(i, j) == IF i >= 0 THEN i \div j ELSE -((-i) \div j)

\* f64 as i32
Trunc(p) == TruncDiv(p.n, p.d)

\* f64::round: to the nearest integer, halves away from zero
Round(p) ==
    IF p.n >= 0 THEN (2 * p.n + p.d) \div (2 * p.d)
    ELSE -((2 * (-p.n) + p.d) \div (2 * p.d))

\* ---------------------------------------------------------------- Vector2

X(p) == p[1]

Y(p) == p[2]

\* Vector2<f64>::add
VAdd(p, q) == <<RAdd(p[1], q[1]), RAdd(p[2], q[2])>>

\* Vector2<f64>::from(Vector2<i32>)
VFromInt(p) == <<IntR(p[1]), IntR(p[2])>>

\* Vector2<i32>::from(Vector2<f64>)
VToInt(p) == <<Trunc(p[1]), Trunc(p[2])>>

\* Ord for Vector2<i32>: rows first, then columns
VLess(p, q) == p # q /\ (p[2] < q[2] \/ (p[2] = q[2] /\ p[1] < q[1]))

\* ------------------------------------------------------------------- Rect

\* Rect<f64>::contains, for a point with integer coordinates
Contains(view, p) ==
    /\ RLe(view.location[1], IntR(p[1]))
    /\ RLt(IntR(p[1]), RAddInt(view.location[1], view.width))
    /\ RLe(view.location[2], IntR(p[2]))
    /\ RLt(IntR(p[2]), RAddInt(view.location[2], view.height))

\* Rect<f64>::center
Center(view) == <<Rat(view.width, 2), Rat(view.height, 2)>>

\* Rect<f64>::center_point
CenterPoint(view) == VAdd(view.location, Center(view))

\* RenderOpts::default
RenderOptsDefault ==
    [view |-> [location |-> <<IntR(0), IntR(0)>>, width |-> 0, height |-> 0],
     scale |-> 10]

\* ----------------------------------------------------------------- Option

None == [some |-> FALSE]

Some(v) == [some |-> TRUE, val |-> v]

\* ----------------------------------------------------------------- Editor
\* The text buffer: rows of characters, a cursor, a selection anchor.

InsertAt(s, i, c) == SubSeq(s, 1, i) \o <<c>> \o SubSeq(s, i + 1, Len(s))

RemoveAt(s, i) == SubSeq(s, 1, i - 1) \o SubSeq(s, i + 1, Len(s))

\* Editor::new: one empty row, cursor at the origin
EditorNew ==
    [rows |-> << <<>> >>, cur |-> <<0, 0>>, selecting |-> FALSE, anchor |-> <<0, 0>>]

\* the rows of a flat text: a row ends at each row separator
RECURSIVE SplitRows(_)
SplitRows(s) ==
    IF \A i \in 1..Len(s) : s[i] # NL THEN <<s>>
    ELSE LET k == CHOOSE i \in 1..Len(s) :
                      s[i] = NL /\ \A j \in 1..(i - 1) : s[j] # NL
         IN  <<SubSeq(s, 1, k - 1)>> \o SplitRows(SubSeq(s, k + 1, Len(s)))

\* Editor::from(text)
EditorFrom(s) == [EditorNew EXCEPT !.rows = SplitRows(s)]

\* rows joined by the row separator
RECURSIVE JoinRows(_)
JoinRows(rows) ==
    IF Len(rows) = 1 THEN rows[1]
    ELSE rows[1] \o <<NL>> \o JoinRows(Tail(rows))

\* Editor::to_string
EditorToString(e) == JoinRows(e.rows)

\* Editor::cursor_pos
CursorPos(e) == e.cur

\* the cursor invariant: 0 <= y < rowCount, 0 <= x <= len(row y)
Clamp(rows, p) ==
    LET y == Max(0, Min(p[2], Len(rows) - 1))
    IN  <<Max(0, Min(p[1], Len(rows[y + 1]))), y>>

\* Editor::line_len
LineLen(e) == Len(e.rows[e.cur[2] + 1])

\* Editor::write
EditorWrite(e, ch) ==
    LET x == e.cur[1]
        y == e.cur[2]
        row == e.rows[y + 1]
    IN  IF ch = NL
        THEN [e EXCEPT
                !.rows = SubSeq(e.rows, 1, y)
                         \o <<SubSeq(row, 1, x), SubSeq(row, x + 1, Len(row))>>
                         \o SubSeq(e.rows, y + 2, Len(e.rows)),
                !.cur = <<0, y + 1>>]
        ELSE [e EXCEPT !.rows[y + 1] = InsertAt(row, x, ch), !.cur = <<x + 1, y>>]

\* Editor::delete: the editor afterwards and the removed cell
EditorDelete(e) ==
    LET x == e.cur[1]
        y == e.cur[2]
        row == e.rows[y + 1]
    IN  IF x = 0 /\ y = 0 THEN [editor |-> e, cell |-> None]
        ELSE IF x = 0
        THEN [editor |->
                 [e EXCEPT
                    !.rows = SubSeq(e.rows, 1, y - 1)
                             \o <<e.rows[y] \o row>>
                             \o SubSeq(e.rows, y + 2, Len(e.rows)),
                    !.cur = <<Len(e.rows[y]), y - 1>>],
              cell |-> Some(NL)]
        ELSE [editor |-> [e EXCEPT !.rows[y + 1] = RemoveAt(row, x),
                                   !.cur = <<x - 1, y>>],
              cell |-> Some(row[x])]

\* Editor::get_cell: the character at column x of row y; none if y is not a
\* row or x is not a column of row y
GetCell(e, x, y) ==
    IF y >= 0 /\ y < Len(e.rows) /\ x >= 0 /\ x < Len(e.rows[y + 1])
    THEN Some(e.rows[y + 1][x + 1])
    ELSE None

\* Editor::set_cursor
EditorSetCursor(e, p) == [e EXCEPT !.cur = Clamp(e.rows, p)]

\* Editor::move_cursor
EditorMoveCursor(e, d) ==
    [e EXCEPT !.cur = Clamp(e.rows, <<e.cur[1] + d[1], e.cur[2] + d[2]>>)]

\* the index of a position in the flat text
RECURSIVE PosToIdx(_, _)
PosToIdx(rows, p) ==
    IF p[2] = 0 THEN p[1]
    ELSE Len(rows[1]) + 1 + PosToIdx(Tail(rows), <<p[1], p[2] - 1>>)

\* the position of an index of the flat text
RECURSIVE IdxToPos(_, _)
IdxToPos(rows, i) ==
    IF i <= Len(rows[1]) \/ Len(rows) = 1 THEN <<Min(i, Len(rows[1])), 0>>
    ELSE LET p == IdxToPos(Tail(rows), i - Len(rows[1]) - 1)
         IN  <<p[1], p[2] + 1>>

IsSpace(c) == c = NL \/ c = " "

\* Position::NextWord: past the current word and the whitespace after it
NextWordIdx(s, i) ==
    LET ends == {j \in i..Len(s) : j = Len(s) \/ IsSpace(s[j + 1])}
        j == CHOOSE a \in ends : \A b \in ends : a <= b
        starts == {k \in j..Len(s) : k = Len(s) \/ ~IsSpace(s[k + 1])}
    IN  CHOOSE a \in starts : \A b \in starts : a <= b

\* Position::PreviousWord: the mirror of NextWord
PreviousWordIdx(s, i) ==
    LET ends == {j \in 0..i : j = 0 \/ ~IsSpace(s[j])}
        j == CHOOSE a \in ends : \A b \in ends : a >= b
        starts == {k \in 0..j : k = 0 \/ IsSpace(s[k])}
    IN  CHOOSE a \in starts : \A b \in starts : a >= b

\* Editor::move_cursor_to
EditorMoveCursorTo(e, marker) ==
    LET s == EditorToString(e)
        i == PosToIdx(e.rows, e.cur)
    IN  CASE marker = "LineBeginning" -> [e EXCEPT !.cur = <<0, e.cur[2]>>]
          [] marker = "LineEnd" -> [e EXCEPT !.cur = <<LineLen(e), e.cur[2]>>]
          [] marker = "NextWord" ->
                [e EXCEPT !.cur = IdxToPos(e.rows, NextWordIdx(s, i))]
          [] marker = "PreviousWord" ->
                [e EXCEPT !.cur = IdxToPos(e.rows, PreviousWordIdx(s, i))]

\* Editor::search: the nearest occurrence of text strictly past start in the
\* direction of the scan; no wrap-around; none for the empty text
EditorSearch(e, text, start, reverse) ==
    LET s == EditorToString(e)
        n == Len(text)
        i0 == PosToIdx(e.rows, start)
        occ == {i \in 0..(Len(s) - n) : SubSeq(s, i + 1, i + n) = text}
        hits == IF n = 0 THEN {}
                ELSE IF reverse THEN {i \in occ : i < i0}
                ELSE {i \in occ : i > i0}
    IN  IF hits = {} THEN None
        ELSE IF reverse
        THEN Some(IdxToPos(e.rows, CHOOSE a \in hits : \A b \in hits : a >= b))
        ELSE Some(IdxToPos(e.rows, CHOOSE a \in hits : \A b \in hits : a <= b))

\* Editor::begin_select
EditorBeginSelect(e) == [e EXCEPT !.selecting = TRUE, !.anchor = e.cur]

\* Editor::clear_selection: the anchor is dropped
EditorClearSelection(e) == [e EXCEPT !.selecting = FALSE, !.anchor = <<0, 0>>]

\* Editor::copy: the cells of the half-open selection range, in order
EditorCopy(e) ==
    LET a == Clamp(e.rows, e.anchor)
        lo == IF VLess(a, e.cur) THEN a ELSE e.cur
        hi == IF VLess(a, e.cur) THEN e.cur ELSE a
    IN  IF e.selecting
        THEN Some(SubSeq(EditorToString(e), PosToIdx(e.rows, lo) + 1, PosToIdx(e.rows, hi)))
        ELSE None

\* ---------------------------------------------------------- StringRenderer

\* StringRenderer::render, the text as its rows (each ends with '\n' in the
\* String). Screen cell (x, y), counted in cells from the buffer's origin,
\* shows the buffer cell ((x * scale) as i32, (y * scale) as i32); a row of
\* the text stops short at the first missing cell right of buffer column 0
\* when break_on_line_end is set.
StringRendererRender(editor, opts, line_hint, break_on_line_end) ==
    LET width == opts.view.width
        height == IF line_hint.some THEN 1 ELSE opts.view.height
        y2 == IF line_hint.some THEN line_hint.val ELSE Round(Y(opts.view.location))
        x2 == Round(X(opts.view.location))
        bx(c) == TruncDiv((x2 + c - 1) * opts.scale, 10)
        Cell(c, y) == GetCell(editor, bx(c), TruncDiv(y * opts.scale, 10))
        Stops(y) == {c \in 1..width : bx(c) > 0 /\ ~Cell(c, y).some}
        Count(y) == IF ~break_on_line_end \/ Stops(y) = {} THEN width
                    ELSE (CHOOSE c \in Stops(y) : \A d \in Stops(y) : c <= d) - 1
        Glyph(cell) == IF cell.some THEN cell.val ELSE " "
    IN  [r \in 1..height |->
            [c \in 1..Count(y2 + r - 1) |-> Glyph(Cell(c, y2 + r - 1))]]

\* ------------------------------------------------------- Action, EditMode

SaveFileAs == [kind |-> "SaveFileAs"]

Search(reverse) == [kind |-> "Search", reverse |-> reverse]

Command == [tag |-> "Command"]

Insert == [tag |-> "Insert"]

\* Prompt(Box<EditMode>, Option<Action>)
Prompt(m, action) == [tag |-> "Prompt", action |-> action, mode |-> m]

IsPrompt(m) == m.tag = "Prompt"

\* how many Prompts wrap the innermost mode
RECURSIVE Depth(_)
Depth(m) == IF IsPrompt(m) THEN 1 + Depth(m.mode) ELSE 0

\* ------------------------------------------------------- host environment

\* Clipboard::paste: the clipboard's text, or an error
ClipboardPaste(clip, ok) == IF ok THEN Some(clip) ELSE None

\* std::fs::write: fails when the host refuses, and always for the empty path
WriteSucceeds(path, ok) == ok /\ path # <<>>

\* the files after writing content to path
DiskWrite(d, path, content) ==
    [q \in (DOMAIN d) \cup {path} |-> IF q = path THEN content ELSE d[q]]

\* ------------------------------------------------------------ Application
\* The operators below take the application state a (the fields of
\* Application, the host's files and terminal size, the panic flag and the
\* terminal commands issued while handling the current event) and give the
\* state after the call.

\* Application::update_view_size
UpdateViewSize(a) ==
    [a EXCEPT !.render_opts.view.width = a.term.cols,
              !.render_opts.view.height = a.term.rows - 1]

\* ClearRenderHints, were the line hint left set
ClearRenderHintsKeepsLine(a) == [a EXCEPT !.render_break_line_hint = FALSE]

\* Application::clear_render_hints
ClearRenderHints(a) ==
    [a EXCEPT !.render_break_line_hint = FALSE, !.render_line_hint = None]

\* UpdateCursorPos, were the caret shown or hidden anew on every call
UpdateCursorPosUnconditional(a) ==
    IF Contains(a.render_opts.view, CursorPos(a.editor))
    THEN [a EXCEPT !.out = Append(@, [kind |-> "show"]), !.cursor_hidden = FALSE]
    ELSE [a EXCEPT !.out = Append(@, [kind |-> "hide"]), !.cursor_hidden = TRUE]

\* Application::update_cursor_pos
UpdateCursorPos(a) ==
    IF Contains(a.render_opts.view, CursorPos(a.editor))
    THEN IF a.cursor_hidden
         THEN [a EXCEPT !.out = Append(@, [kind |-> "show"]), !.cursor_hidden = FALSE]
         ELSE a
    ELSE IF ~a.cursor_hidden
         THEN [a EXCEPT !.out = Append(@, [kind |-> "hide"]), !.cursor_hidden = TRUE]
         ELSE a

\* Application::render, after the line hint was found to be None: the frame is
\* written from the top left corner of the terminal on
RenderFrame(a) ==
    UpdateCursorPos(
        [a EXCEPT !.out = Append(@, [kind |-> "full"]),
                  !.screen = StringRendererRender(a.editor, a.render_opts, None, FALSE)])

\* render_line, (0, line) inside the view: the row is written from column 0 of
\* terminal row line - round(view.location.y) on; the cells of the text area
\* it covers are overwritten, the others stay
RenderRow(a, line) ==
    LET y == line - Round(Y(a.render_opts.view.location))
        text == StringRendererRender(a.editor, a.render_opts, Some(line),
                                     a.render_break_line_hint)[1]
    IN  [a EXCEPT !.out = Append(@, [kind |-> "line", line |-> line,
                                     break |-> a.render_break_line_hint]),
                  !.screen = IF y + 1 \in DOMAIN @
                             THEN [@ EXCEPT ![y + 1] =
                                      text \o SubSeq(@, Len(text) + 1, Len(@))]
                             ELSE @]

\* RenderLine, were a row outside the view to redraw the frame wherever it lies
RenderLineRedrawsFrame(a, line) ==
    IF Contains(a.render_opts.view, <<0, line>>)
    THEN ClearRenderHints(UpdateCursorPos(RenderRow(a, line)))
    ELSE RenderFrame(UpdateViewSize(ClearRenderHints(a)))

\* Application::render_line
RenderLine(a, line) ==
    IF Contains(a.render_opts.view, <<0, line>>)
    THEN ClearRenderHints(UpdateCursorPos(RenderRow(a, line)))
    ELSE LET b == ClearRenderHints(a)
         IN  IF VLess(<<0, line>>, VToInt(b.render_opts.view.location))
             THEN RenderFrame(UpdateViewSize(b))
             ELSE b

\* Application::render
Render(a) ==
    LET b == UpdateViewSize(a)
    IN  IF b.render_line_hint.some THEN RenderLine(b, b.render_line_hint.val)
        ELSE RenderFrame(b)

\* HintCursorRow, were no line hint set
HintCursorRowForgotten(b, dy) == b

\* self.render_line_hint = Some(self.editor.cursor_pos().y() - dy)
HintCursorRow(b, dy) ==
    [b EXCEPT !.render_line_hint = Some(Y(CursorPos(b.editor)) - dy)]

\* the end of set_cursor and move_cursor: while selecting, the cursor's row
\* and the row it came from are redrawn
RenderSelection(b, y) ==
    IF b.editor.selecting
    THEN Render(HintCursorRow(Render(HintCursorRow(b, 0)), y))
    ELSE b

\* Application::set_cursor
SetCursor(a, x, y) ==
    RenderSelection(
        UpdateCursorPos([a EXCEPT !.editor = EditorSetCursor(@, <<x, y>>)]), y)

\* Application::move_cursor
MoveCursor(a, x, y) ==
    RenderSelection(
        UpdateCursorPos([a EXCEPT !.editor = EditorMoveCursor(@, <<x, y>>)]), y)

\* Application::move_view
MoveView(a, x, y) ==
    Render([a EXCEPT !.render_opts.view.location = VAdd(@, VFromInt(<<x, y>>))])

\* Application::center_renderer: the vertical location alone is assigned
CenterRenderer(a, loc) ==
    [a EXCEPT !.render_opts.view.location[2] =
                  IntR(Y(loc) - TruncDiv(a.render_opts.view.height, 2))]

\* Application::go_to_line_home
GoToLineHome(a) == [a EXCEPT !.editor = EditorMoveCursorTo(@, "LineBeginning")]

\* Application::go_to_line_end
GoToLineEnd(a) == [a EXCEPT !.editor = EditorMoveCursorTo(@, "LineEnd")]

\* Application::next_word
NextWord(a, forward) ==
    UpdateCursorPos([a EXCEPT !.editor =
        EditorMoveCursorTo(@, IF forward THEN "NextWord" ELSE "PreviousWord")])

\* Application::save_to_file: the unwrap panics when the write fails
SaveToFile(a, filename, ok) ==
    IF WriteSucceeds(filename, ok)
    THEN [a EXCEPT !.disk = DiskWrite(@, filename, EditorToString(a.editor))]
    ELSE [a EXCEPT !.panicked = TRUE]

\* search_next, the cursor set on the match x: the view is re-centred and the
\* frame rendered if x is outside the view
ShowMatch(c, x) ==
    IF ~Contains(c.render_opts.view, x) THEN Render(CenterRenderer(c, x)) ELSE c

\* search_next, last_search assigned, r the result of Editor::search
SearchFound(b, r) ==
    IF r.some THEN ShowMatch(SetCursor(b, X(r.val), Y(r.val)), r.val) ELSE b

\* SearchNext, were the text searched for not remembered
SearchNextForgetsText(a, text, reverse) ==
    SearchFound(a, EditorSearch(a.editor, text, CursorPos(a.editor), reverse))

\* Application::search_next
SearchNext(a, text, reverse) ==
    SearchFound([a EXCEPT !.last_search = text],
                EditorSearch(a.editor, text, CursorPos(a.editor), reverse))

\* the loop of delete_line: delete back to and including a row separator
RECURSIVE DeleteToSeparator(_)
DeleteToSeparator(e) ==
    LET r == EditorDelete(e)
    IN  IF r.cell.some /\ r.cell.val # NL THEN DeleteToSeparator(r.editor)
        ELSE r.editor

\* DeleteLine, were the emptied first row left in place
DeleteLineLeavesFirstRow(a) ==
    LET b == GoToLineEnd(a)
        c == GoToLineHome([b EXCEPT !.editor = DeleteToSeparator(@)])
    IN  [c EXCEPT !.editor = EditorMoveCursor(@, <<0, 1>>)]

\* Application::delete_line
DeleteLine(a) ==
    LET pos == CursorPos(a.editor)
        b == GoToLineEnd(a)
        c == GoToLineHome([b EXCEPT !.editor = DeleteToSeparator(@)])
        d == [c EXCEPT !.editor = EditorMoveCursor(@, <<0, 1>>)]
    IN  IF Y(pos) = 0 THEN [d EXCEPT !.editor = EditorDelete(@).editor] ELSE d

\* the characters of a text written one by one
RECURSIVE WriteAll(_, _)
WriteAll(e, s) == IF s = <<>> THEN e ELSE WriteAll(EditorWrite(e, Head(s)), Tail(s))

\* str::replace("\r", "")
StripCR(s) == SelectSeq(s, LAMBDA c : c # CR)

\* the update! macro of process_prompt_mode: status bar, then the caret
PromptUpdate(a) == UpdateCursorPos(a)

\* PromptReset, were it to go back to Command whatever mode was stored
PromptResetToCommand(a, edit_mode) ==
    [a EXCEPT !.prompt_buffer = EditorNew, !.edit_mode = Command]

\* PromptReset, were the scratch buffer left as it is
PromptResetKeepsBuffer(a, edit_mode) == [a EXCEPT !.edit_mode = edit_mode]

\* the reset! macro of process_prompt_mode
PromptReset(a, edit_mode) ==
    [a EXCEPT !.prompt_buffer = EditorNew, !.edit_mode = edit_mode]

\* SaveAs, were it to write the file and forget the new path
SaveAsForgetsPath(a, text, ok) ==
    SaveToFile([a EXCEPT !.log = <<"saved to file: ">> \o text], text, ok)

\* the SaveFileAs arm of Enter
SaveAs(a, text, ok) ==
    SaveToFile([a EXCEPT !.filepath = text, !.log = <<"saved to file: ">> \o text],
               text, ok)

\* the Enter arm of process_prompt_mode, up to the reset
PromptCommit(a, action, ok) ==
    IF ~action.some THEN a
    ELSE IF action.val = SaveFileAs
    THEN SaveAs(a, EditorToString(a.prompt_buffer), ok)
    ELSE SearchNext(a, EditorToString(a.prompt_buffer), action.val.reverse)

\* the Enter arm from the reset on; nothing of it runs after a panic
PromptDone(b, edit_mode) ==
    IF b.panicked THEN b ELSE PromptUpdate(PromptReset(b, edit_mode))

\* Application::process_prompt_mode
ProcessPromptMode(a, event, action, edit_mode, ok) ==
    CASE event.key = "Char" ->
            PromptUpdate([a EXCEPT !.prompt_buffer = EditorWrite(@, event.ch)])
      [] event.key = "Backspace" ->
            PromptUpdate([a EXCEPT !.prompt_buffer = EditorDelete(@).editor])
      [] event.key = "Esc" -> PromptUpdate(PromptReset(a, edit_mode))
      [] event.key = "Left" ->
            PromptUpdate([a EXCEPT !.prompt_buffer = EditorMoveCursor(@, <<-1, 0>>)])
      [] event.key = "Right" ->
            PromptUpdate([a EXCEPT !.prompt_buffer = EditorMoveCursor(@, <<1, 0>>)])
      [] event.key = "Up" ->
            IF action.some /\ action.val.kind = "Search"
            THEN Render([a EXCEPT !.prompt_buffer =
                            EditorMoveCursorTo(EditorFrom(a.last_search), "LineEnd")])
            ELSE a
      [] event.key = "Enter" -> PromptDone(PromptCommit(a, action, ok), edit_mode)
      [] OTHER -> a

\* Application::process_mouse_event
ProcessMouseEvent(a, event) ==
    LET b == [a EXCEPT !.log = <<"Processing mouse event">>]
        x == event.x + Round(X(a.render_opts.view.location))
        y == event.y + Round(Y(a.render_opts.view.location))
    IN  IF event.key = "Press"
        THEN Render([b EXCEPT
                !.log = <<"mouse: set cursor location to ", ToString(x), ":",
                          ToString(y)>>,
                !.editor = EditorSetCursor(@, <<x, y>>)])
        ELSE [b EXCEPT !.log = <<"unknown mouse event">>]

\* Application::process_insert_mode
ProcessInsertMode(a, event) ==
    CASE event.key = "Down" -> MoveCursor(a, 0, 1)
      [] event.key = "Up" -> MoveCursor(a, 0, -1)
      [] event.key = "Right" -> MoveCursor(a, 1, 0)
      [] event.key = "Left" -> MoveCursor(a, -1, 0)
      [] event.key = "Char" ->
            Render([HintCursorRow([a EXCEPT !.log = <<"[", event.ch, "]">>,
                                            !.editor = EditorWrite(@, event.ch)], 0)
                        EXCEPT !.render_break_line_hint = TRUE])
      [] event.key = "Esc" -> Render([a EXCEPT !.edit_mode = Command])
      [] event.key = "Backspace" ->
            LET r == EditorDelete(a.editor)
            IN  IF r.cell.some /\ r.cell.val # NL
                THEN Render(HintCursorRow([a EXCEPT !.editor = r.editor], 0))
                ELSE Render([a EXCEPT !.editor = r.editor])
      [] event.key = "Enter" -> Render([a EXCEPT !.editor = EditorWrite(@, NL)])
      [] OTHER -> a

\* TransformViewCoordinates, were the division by the new scale left out
TransformWithoutDivision(p, scale, scale2) ==
    <<Rat(p[1].n * scale, p[1].d), Rat(p[2].n * scale, p[2].d)>>

\* find the new location of an editor coordinate when applied to a different
\* scale: p * scale / scale2
TransformViewCoordinates(p, scale, scale2) ==
    <<Rat(p[1].n * scale, p[1].d * scale2), Rat(p[2].n * scale, p[2].d * scale2)>>

\* Vector2<f64>::sub
VSub(p, q) == <<RSub(p[1], q[1]), RSub(p[2], q[2])>>

\* Reanchor, were the view left where it is when the scale changes
ReanchorKeepsLocation(a, original_scale) == a

\* the zoom arms, the scale assigned: the view is re-anchored on its centre
\* point; the new scale is the divisor transform_view_coordinates is given
Reanchor(a, original_scale) ==
    [a EXCEPT !.render_opts.view.location =
        VSub(TransformViewCoordinates(CenterPoint(a.render_opts.view),
                                      original_scale, a.render_opts.scale),
             Center(a.render_opts.view)),
              !.divisors = Append(@, a.render_opts.scale)]

\* ZoomIn, were the scale taken down by 0.1 without the clamp at 0
ZoomInUnclamped(a) == Render([a EXCEPT !.render_opts.scale = @ - 1])

\* ZoomIn, were the scale compared with 0 before 0.1 is taken off it
ZoomInClampsLate(a) ==
    IF a.render_opts.scale <= 0
    THEN Render([a EXCEPT !.render_opts.scale = 0])
    ELSE Render(Reanchor([a EXCEPT !.render_opts.scale = @ - 1],
                         a.render_opts.scale))

\* the Char('+') arm of process_command_mode: the scale goes down by 0.1 and
\* stops at 0, where the view is not re-anchored
ZoomIn(a) ==
    IF a.render_opts.scale - 1 <= 0
    THEN Render([a EXCEPT !.render_opts.scale = 0])
    ELSE Render(Reanchor([a EXCEPT !.render_opts.scale = @ - 1],
                         a.render_opts.scale))

\* Application::process_command_mode
ProcessCommandMode(a, event, ok) ==
    CASE IsChar(event, "i") -> Render([a EXCEPT !.edit_mode = Insert])
      [] IsChar(event, "o") ->
            Render([GoToLineEnd(a) EXCEPT !.editor = EditorWrite(@, NL),
                                          !.edit_mode = Insert])
      [] IsChar(event, "O") ->
            Render([GoToLineEnd(MoveCursor(a, 0, -1))
                        EXCEPT !.editor = EditorWrite(@, NL), !.edit_mode = Insert])
      [] IsChar(event, "J") -> MoveView(a, 0, 5)
      [] IsChar(event, "K") -> MoveView(a, 0, -5)
      [] IsChar(event, "H") -> MoveView(a, -5, 0)
      [] IsChar(event, "L") -> MoveView(a, 5, 0)
      [] IsChar(event, "v") -> [a EXCEPT !.editor = EditorBeginSelect(@)]
      [] IsChar(event, "d") -> Render([a EXCEPT !.editor = EditorDelete(@).editor])
      [] IsChar(event, "c") ->
            LET x == EditorCopy(a.editor)
            IN  IF x.some
                THEN IF ok
                     THEN Render([a EXCEPT !.clipboard = x.val,
                                           !.log = <<"copied to clipboard">>])
                     ELSE Render([a EXCEPT !.log = <<"error copying: ", "error">>])
                ELSE Render(a)
      [] IsKey(event, "Esc") -> Render([a EXCEPT !.editor = EditorClearSelection(@)])
      [] IsChar(event, "/") ->
            Render([a EXCEPT !.log = <<"search: ">>,
                             !.edit_mode = Prompt(a.edit_mode, Some(Search(FALSE)))])
      [] IsChar(event, "?") ->
            Render([a EXCEPT !.log = <<"search: ">>,
                             !.edit_mode = Prompt(a.edit_mode, Some(Search(TRUE)))])
      [] IsChar(event, "n") ->
            Render(SearchNext([a EXCEPT !.log = <<"repeating last search">>],
                              a.last_search, FALSE))
      [] IsChar(event, "N") ->
            Render(SearchNext([a EXCEPT !.log = <<"repeating last search">>],
                              a.last_search, TRUE))
      [] IsChar(event, "j") -> MoveCursor(a, 0, 1)
      [] IsChar(event, "k") -> MoveCursor(a, 0, -1)
      [] IsChar(event, "h") -> MoveCursor(a, -1, 0)
      [] IsChar(event, "l") -> MoveCursor(a, 1, 0)
      [] IsChar(event, "w") -> NextWord(a, TRUE)
      [] IsChar(event, "b") -> NextWord(a, FALSE)
      [] IsChar(event, "$") -> UpdateCursorPos(GoToLineEnd(a))
      [] IsChar(event, "0") -> UpdateCursorPos(GoToLineHome(a))
      [] IsChar(event, "_") ->
            Render(Reanchor([a EXCEPT !.render_opts.scale = @ + 1],
                            a.render_opts.scale))
      [] IsChar(event, "+") -> ZoomIn(a)
      [] IsChar(event, "=") ->
            Render([Reanchor([a EXCEPT !.render_opts.scale = 10], a.render_opts.scale)
                        EXCEPT !.log = <<"reset render scale to 1">>])
      [] IsKey(event, "Down") -> MoveCursor(a, 0, 1)
      [] IsKey(event, "Up") -> MoveCursor(a, 0, -1)
      [] IsKey(event, "Right") -> MoveCursor(a, 1, 0)
      [] IsKey(event, "Left") -> MoveCursor(a, -1, 0)
      [] OTHER -> a

\* Quit, were the quit key left to the prompt while one is open
QuitUnlessPrompt(a) == IF IsPrompt(a.edit_mode) THEN a ELSE [a EXCEPT !.exit = TRUE]

\* the Ctrl('c') arm of process_key_event
Quit(a) == [a EXCEPT !.exit = TRUE]

\* the keys matched by the arms of process_key_event that come before `_`:
\* they are bound in every mode
IsGlobalKey(event) ==
    \/ event.key \in {"CtrlDown", "CtrlUp", "CtrlRight", "CtrlLeft", "F1", "F5",
                      "Home", "End"}
    \/ event.key = "Ctrl" /\ event.ch \in {"c", "d", "a", "v", "l", "s", "x"}

\* the arms of process_key_event that come before `_`, for a key
\* that IsGlobalKey
ProcessGlobalKey(a, event, ok) ==
    CASE IsKey(event, "CtrlDown") -> MoveView(a, 0, 1)
      [] IsKey(event, "CtrlUp") -> MoveView(a, 0, -1)
      [] IsKey(event, "CtrlRight") -> MoveView(a, 1, 0)
      [] IsKey(event, "CtrlLeft") -> MoveView(a, -1, 0)
      [] IsKey(event, "F1") ->
            [a EXCEPT !.out = Append(@, [kind |-> "help"]), !.screen = <<>>]
      [] IsKey(event, "F5") -> Render(a)
      [] IsCtrl(event, "c") -> Quit(a)
      [] IsCtrl(event, "d") -> Render(DeleteLine(a))
      [] IsCtrl(event, "a") ->
            SetCursor(a, 0, Trunc(Y(a.render_opts.view.location))
                            + TruncDiv(a.render_opts.view.height, 2))
      [] IsCtrl(event, "v") ->
            LET r == ClipboardPaste(a.clipboard, ok)
            IN  IF r.some
                THEN Render([a EXCEPT !.editor = WriteAll(@, StripCR(r.val))])
                ELSE [a EXCEPT !.panicked = TRUE]
      [] IsCtrl(event, "l") -> Render(CenterRenderer(a, CursorPos(a.editor)))
      [] IsCtrl(event, "s") ->
            LET b == SaveToFile(a, a.filepath, ok)
            IN  IF b.panicked THEN b
                ELSE Render([b EXCEPT !.log = <<"saved to ">> \o a.filepath])
      [] IsCtrl(event, "x") ->
            Render([a EXCEPT
                !.edit_mode = Prompt(a.edit_mode, Some(SaveFileAs)),
                !.log = <<"save as: ">>,
                !.prompt_buffer = EditorMoveCursorTo(EditorFrom(a.filepath), "LineEnd")])
      [] IsKey(event, "Home") -> UpdateCursorPos(GoToLineHome(a))
      [] IsKey(event, "End") -> UpdateCursorPos(GoToLineEnd(a))

\* ProcessKeyEvent, were an open prompt given every key before the global arms
ProcessKeyEventPromptFirst(a, event, ok) ==
    IF IsPrompt(a.edit_mode)
    THEN ProcessPromptMode(a, event, a.edit_mode.action, a.edit_mode.mode, ok)
    ELSE IF IsGlobalKey(event) THEN ProcessGlobalKey(a, event, ok)
    ELSE IF a.edit_mode = Insert THEN ProcessInsertMode(a, event)
    ELSE ProcessCommandMode(a, event, ok)

\* ProcessKeyEvent, were the search keys handled before the mode is looked at,
\* like the global keys
ProcessKeyEventSearchFirst(a, event, ok) ==
    IF IsGlobalKey(event) THEN ProcessGlobalKey(a, event, ok)
    ELSE IF IsChar(event, "/") \/ IsChar(event, "?")
    THEN ProcessCommandMode(a, event, ok)
    ELSE CASE a.edit_mode = Insert -> ProcessInsertMode(a, event)
           [] a.edit_mode = Command -> ProcessCommandMode(a, event, ok)
           [] OTHER -> ProcessPromptMode(a, event, a.edit_mode.action,
                                         a.edit_mode.mode, ok)

\* Application::process_key_event
ProcessKeyEvent(a, event, ok) ==
    IF IsGlobalKey(event) THEN ProcessGlobalKey(a, event, ok)
    ELSE CASE a.edit_mode = Insert -> ProcessInsertMode(a, event)
           [] a.edit_mode = Command -> ProcessCommandMode(a, event, ok)
           [] OTHER -> ProcessPromptMode(a, event, a.edit_mode.action,
                                         a.edit_mode.mode, ok)

\* ProcessEvent, were an event of another kind logged like an unknown mouse event
ProcessEventLogsUnknown(a, event, ok) ==
    CASE event.type = "Keyboard" -> ProcessKeyEvent(a, event, ok)
      [] event.type = "Mouse" -> ProcessMouseEvent(a, event)
      [] OTHER -> [a EXCEPT !.log = <<"unknown event">>]

\* Application::process_event
ProcessEvent(a, event, ok) ==
    CASE event.type = "Keyboard" -> ProcessKeyEvent(a, event, ok)
      [] event.type = "Mouse" -> ProcessMouseEvent(a, event)
      [] OTHER -> a

\* ------------------------------------------------------------------ state

VARIABLES
    filepath,               \* Application.filepath
    editor,                 \* Application.editor
    clipboard,              \* Application.clipboard: the text the clipboard holds
    render_opts,            \* Application.render_opts
    exit,                   \* Application.exit
    log,                    \* Application.log
    edit_mode,              \* Application.edit_mode
    last_search,            \* Application.last_search
    prompt_buffer,          \* Application.prompt_buffer
    render_line_hint,       \* Application.render_line_hint
    render_break_line_hint, \* Application.render_break_line_hint
    cursor_hidden,          \* Application.cursor_hidden
    disk,                   \* the host's files: path -> contents
    term,                   \* the terminal's size, terminal::size()
    panicked,               \* the process died of a panic
    out,                    \* terminal commands issued for the last event
    screen,                 \* the text area of the terminal: its rows of cells
                            \* (none when nothing of the document is drawn)
    divisors,               \* the scale2 of each call of transform_view_coordinates
                            \* made for the last event
    started,                \* run() has drawn the first frame
    lastEvent               \* the event last read by run(), and who handled it

vars ==
    <<filepath, editor, clipboard, render_opts, exit, log, edit_mode, last_search,
      prompt_buffer, render_line_hint, render_break_line_hint, cursor_hidden, disk,
      term, panicked, out, screen, divisors, started, lastEvent>>

\* the state as one value, for the operators above
App ==
    [filepath |-> filepath, editor |-> editor, clipboard |-> clipboard,
     render_opts |-> render_opts, exit |-> exit, log |-> log,
     edit_mode |-> edit_mode, last_search |-> last_search,
     prompt_buffer |-> prompt_buffer, render_line_hint |-> render_line_hint,
     render_break_line_hint |-> render_break_line_hint,
     cursor_hidden |-> cursor_hidden, disk |-> disk, term |-> term,
     panicked |-> panicked, out |-> out, screen |-> screen,
     divisors |-> divisors]

\* the fields of Application alone
Fields ==
    <<filepath, editor, clipboard, render_opts, exit, log, edit_mode, last_search,
      prompt_buffer, render_line_hint, render_break_line_hint, cursor_hidden>>

Commit(b) ==
    /\ filepath' = b.filepath
    /\ editor' = b.editor
    /\ clipboard' = b.clipboard
    /\ render_opts' = b.render_opts
    /\ exit' = b.exit
    /\ log' = b.log
    /\ edit_mode' = b.edit_mode
    /\ last_search' = b.last_search
    /\ prompt_buffer' = b.prompt_buffer
    /\ render_line_hint' = b.render_line_hint
    /\ render_break_line_hint' = b.render_break_line_hint
    /\ cursor_hidden' = b.cursor_hidden
    /\ disk' = b.disk
    /\ term' = b.term
    /\ panicked' = b.panicked
    /\ out' = b.out
    /\ screen' = b.screen
    /\ divisors' = b.divisors

\* the states the model follows
WithinBounds(b) ==
    /\ Len(b.editor.rows) <= MaxRows
    /\ \A i \in 1..Len(b.editor.rows) : Len(b.editor.rows[i]) <= MaxCols
    /\ Len(EditorToString(b.prompt_buffer)) <= MaxPrompt
    /\ Depth(b.edit_mode) <= MaxNest
    /\ \A i \in 1..2 :
          Abs(b.render_opts.view.location[i].n)
              <= MaxPan * b.render_opts.view.location[i].d
    /\ b.render_opts.scale <= 10 + MaxZoom

\* the documents the editor may be started on
InitTexts == {<<"a">>, <<"a", NL, "b", "a">>}

\* the texts another program may have left on the clipboard
InitClips == {<<"a", CR, NL>>}

\* the terminal sizes: columns and rows (the last row is the status line)
Terms == {[rows |-> 3, cols |-> 2]}

\* no event read yet
NoEvent == [event |-> Unsupported, ok |-> TRUE, handler |-> "none"]

\* main, Application::new
Init ==
    /\ filepath = <<"a">>
    /\ \E text \in InitTexts :
          /\ editor = EditorFrom(text)
          /\ disk = [q \in {filepath} |-> text]
    /\ clipboard \in InitClips
    /\ render_opts = RenderOptsDefault
    /\ exit = FALSE
    /\ log = <<>>
    /\ render_line_hint = None
    /\ render_break_line_hint = FALSE
    /\ prompt_buffer = EditorNew
    /\ edit_mode = Command
    /\ cursor_hidden = FALSE
    /\ last_search = <<>>
    /\ term \in Terms
    /\ panicked = FALSE
    /\ out = <<>>
    /\ screen = <<>>
    /\ divisors = <<>>
    /\ started = FALSE
    /\ lastEvent = NoEvent


\* ---------------------------------------------------------------- actions
\* One action per match arm of the event handlers (arms that differ only in
\* a direction share one). process_key_event tries its global arms first, so
\* the actions of the global keys are enabled in every mode; the arms of a
\* mode's handler are enabled in that mode.

\* Application::run up to the loop: the first frame
Start ==
    /\ ~started
    /\ started' = TRUE
    /\ Commit(Render(App))
    /\ UNCHANGED lastEvent

\* the loop of run reads an event: not after exit, not after a panic
Running == started /\ ~exit /\ ~panicked

\* the state as the handler of an event finds it: nothing drawn yet
Before == [App EXCEPT !.out = <<>>, !.divisors = <<>>]

\* one turn of the loop of run: the event is read and fully processed, b being
\* the state its handler leaves
Handle(b, event, ok, handler) ==
    /\ Running
    /\ WithinBounds(b)
    /\ Commit(b)
    /\ started' = started
    /\ lastEvent' = [event |-> event, ok |-> ok, handler |-> handler]

\* a key bound in every mode is pressed
GlobalKey(event, ok) ==
    Handle(ProcessGlobalKey(Before, event, ok), event, ok, "global")

\* a key is pressed in Insert mode, Command mode, a prompt
InsertKey(event) ==
    /\ edit_mode = Insert
    /\ Handle(ProcessInsertMode(Before, event), event, TRUE, "insert")

CommandKey(event, ok) ==
    /\ edit_mode = Command
    /\ Handle(ProcessCommandMode(Before, event, ok), event, ok, "command")

PromptKey(event, ok) ==
    /\ IsPrompt(edit_mode)
    /\ Handle(ProcessPromptMode(Before, event, edit_mode.action, edit_mode.mode, ok),
              event, ok, "prompt")

\* --- global key bindings

CtrlArrow ==
    \E k \in {"CtrlDown", "CtrlUp", "CtrlRight", "CtrlLeft"} : GlobalKey(Key(k), TRUE)

F1 == GlobalKey(Key("F1"), TRUE)

F5 == GlobalKey(Key("F5"), TRUE)

CtrlC == GlobalKey(Ctrl("c"), TRUE)

CtrlD == GlobalKey(Ctrl("d"), TRUE)

CtrlA == GlobalKey(Ctrl("a"), TRUE)

CtrlV == \E ok \in BOOLEAN : GlobalKey(Ctrl("v"), ok)

CtrlL == GlobalKey(Ctrl("l"), TRUE)

CtrlS == \E ok \in BOOLEAN : GlobalKey(Ctrl("s"), ok)

CtrlX == GlobalKey(Ctrl("x"), TRUE)

Home == GlobalKey(Key("Home"), TRUE)

End == GlobalKey(Key("End"), TRUE)

\* --- Insert mode

Arrows == {"Down", "Up", "Right", "Left"}

InsertArrow == \E k \in Arrows : InsertKey(Key(k))

InsertChar == \E c \in Chars : InsertKey(Char(c))

InsertEsc == InsertKey(Key("Esc"))

InsertBackspace == InsertKey(Key("Backspace"))

InsertEnter == InsertKey(Key("Enter"))

\* --- Command mode

CommandInsert == CommandKey(Char("i"), TRUE)

CommandOpen == \E c \in {"o", "O"} : CommandKey(Char(c), TRUE)

CommandPan == \E c \in {"J", "K", "H", "L"} : CommandKey(Char(c), TRUE)

CommandSelect == CommandKey(Char("v"), TRUE)

CommandDelete == CommandKey(Char("d"), TRUE)

\* the clipboard answers only when there is a selection to copy
CommandCopy ==
    \E ok \in (IF EditorCopy(editor).some THEN BOOLEAN ELSE {TRUE}) :
        CommandKey(Char("c"), ok)

CommandEsc == CommandKey(Key("Esc"), TRUE)

CommandSearch == \E c \in {"/", "?"} : CommandKey(Char(c), TRUE)

CommandRepeat == \E c \in {"n", "N"} : CommandKey(Char(c), TRUE)

CommandMove ==
    \E event \in {Char("j"), Char("k"), Char("h"), Char("l")}
                    \cup {Key(k) : k \in Arrows} :
        CommandKey(event, TRUE)

CommandWord == \E c \in {"w", "b"} : CommandKey(Char(c), TRUE)

CommandLineEnds == \E c \in {"$", "0"} : CommandKey(Char(c), TRUE)

CommandZoomOut == CommandKey(Char("_"), TRUE)

CommandZoomIn == CommandKey(Char("+"), TRUE)

CommandZoomReset == CommandKey(Char("="), TRUE)

\* --- Prompt mode

PromptChar == \E c \in Chars : PromptKey(Char(c), TRUE)

PromptBackspace == PromptKey(Key("Backspace"), TRUE)

PromptEsc == PromptKey(Key("Esc"), TRUE)

PromptMove == \E k \in {"Left", "Right"} : PromptKey(Key(k), TRUE)

PromptUp == PromptKey(Key("Up"), TRUE)

\* the file system answers only when the prompt's action is save-as
PromptEnter ==
    /\ IsPrompt(edit_mode)
    /\ \E ok \in (IF edit_mode.action = Some(SaveFileAs) THEN BOOLEAN ELSE {TRUE}) :
          PromptKey(Key("Enter"), ok)

\* --- events without a binding, the mouse, other events

\* the keys some arm other than `_` of the mode's handler matches
BoundInMode(mode, event) ==
    CASE mode = Insert ->
            event.key \in Arrows \cup {"Char", "Esc", "Backspace", "Enter"}
      [] mode = Command ->
            \/ event.key \in Arrows \cup {"Esc"}
            \/ event.key = "Char" /\ event.ch \in
                  {"i", "o", "O", "J", "K", "H", "L", "v", "d", "c", "/", "?", "n",
                   "N", "j", "k", "h", "l", "w", "b", "$", "0", "_", "+", "="}
      [] OTHER ->
            event.key \in {"Char", "Backspace", "Esc", "Left", "Right", "Up", "Enter"}

\* keys tried as keys without a binding
OddKeys == {Key("F2"), Key("Down"), Ctrl("z"), Char("a")}

\* a key no arm matches goes all the way through process_event
UnboundKey ==
    \E event \in OddKeys :
        /\ ~IsGlobalKey(event)
        /\ ~BoundInMode(edit_mode, event)
        /\ Handle(ProcessEvent(Before, event, TRUE), event, TRUE, "unbound")

\* the screen cells a mouse event may name
Cells == {<<0, 0>>, <<1, 1>>, <<0, 2>>}

MousePress ==
    \E c \in Cells :
        Handle(ProcessMouseEvent(Before, Press(c[1], c[2])), Press(c[1], c[2]),
               TRUE, "mouse")

MouseOther ==
    \E c \in Cells :
        Handle(ProcessMouseEvent(Before, Release(c[1], c[2])), Release(c[1], c[2]),
               TRUE, "mouse")

OtherEvent ==
    Handle(ProcessEvent(Before, Unsupported, TRUE), Unsupported, TRUE, "other")

\* ------------------------------------------------------------ specification

Next ==
    \/ Start
    \/ CtrlArrow \/ F1 \/ F5 \/ CtrlC \/ CtrlD \/ CtrlA \/ CtrlV \/ CtrlL \/ CtrlS
    \/ CtrlX \/ Home \/ End
    \/ InsertArrow \/ InsertChar \/ InsertEsc \/ InsertBackspace \/ InsertEnter
    \/ CommandInsert \/ CommandOpen \/ CommandPan \/ CommandSelect \/ CommandDelete
    \/ CommandCopy \/ CommandEsc \/ CommandSearch \/ CommandRepeat \/ CommandMove
    \/ CommandWord \/ CommandLineEnds \/ CommandZoomOut \/ CommandZoomIn
    \/ CommandZoomReset
    \/ PromptChar \/ PromptBackspace \/ PromptEsc \/ PromptMove \/ PromptUp
    \/ PromptEnter
    \/ UnboundKey \/ MousePress \/ MouseOther \/ OtherEvent

Spec == Init /\ [][Next]_vars

\* The whole of Next is too large to explore with every key at hand; each
\* specification below lets the user press the keys one part of the program
\* is about, from the same initial states.

\* the modal dispatcher: modes, prompts, quitting, events without a binding
NextMode ==
    \/ Start
    \/ CtrlC \/ CtrlX
    \/ CommandInsert \/ InsertEsc \/ CommandSearch \/ CommandRepeat
    \/ PromptChar \/ PromptBackspace \/ PromptEsc \/ PromptMove \/ PromptUp
    \/ PromptEnter
    \/ UnboundKey \/ MouseOther \/ OtherEvent

SpecMode == Init /\ [][NextMode]_vars

\* saving: save, save-as, and edits of the document in between
NextSave ==
    \/ Start
    \/ CtrlS \/ CtrlX
    \/ PromptChar \/ PromptBackspace \/ PromptEnter \/ PromptEsc
    \/ CommandInsert \/ InsertChar \/ InsertEsc

SpecSave == Init /\ [][NextSave]_vars

\* searching in a panned view
NextSearch ==
    \/ Start
    \/ CtrlArrow
    \/ CommandSearch \/ CommandRepeat
    \/ PromptChar \/ PromptEnter

SpecSearch == Init /\ [][NextSearch]_vars

\* the clipboard: select, copy, paste
NextClip ==
    \/ Start
    \/ CommandSelect \/ CommandLineEnds \/ CommandCopy
    \/ CtrlV

SpecClip == Init /\ [][NextClip]_vars

\* typing in a panned and zoomed view
NextTyping ==
    \/ Start
    \/ CtrlArrow \/ CommandZoomIn
    \/ CommandInsert \/ InsertChar \/ InsertEnter

SpecTyping == Init /\ [][NextTyping]_vars

\* zooming and panning
NextZoom ==
    \/ Start
    \/ CtrlArrow
    \/ CommandZoomOut \/ CommandZoomIn \/ CommandZoomReset

SpecZoom == Init /\ [][NextZoom]_vars

\* editing the rows of the document: typing, opening and deleting lines
NextLines ==
    \/ Start
    \/ CtrlD
    \/ CommandMove \/ CommandInsert \/ CommandOpen
    \/ InsertChar \/ InsertEnter \/ InsertBackspace \/ InsertEsc

SpecLines == Init /\ [][NextLines]_vars

\* the display: typing and deleting characters in a panned and zoomed view
NextDisplay ==
    \/ Start
    \/ CtrlArrow \/ CommandZoomIn
    \/ CommandLineEnds \/ CommandInsert
    \/ InsertChar \/ InsertBackspace \/ InsertEsc

SpecDisplay == Init /\ [][NextDisplay]_vars

\* the keys bound in every mode, but for paste and save, which SpecClip and
\* SpecSave have
NextGlobal ==
    \/ Start
    \/ CtrlArrow \/ F1 \/ F5 \/ CtrlC \/ CtrlD \/ CtrlA \/ CtrlL \/ CtrlX
    \/ Home \/ End

SpecGlobal == Init /\ [][NextGlobal]_vars

\* ----------------------------------------------------------------- claims

\* every step leaves the state process_event leaves on the event it read
DispatchAgrees ==
    [][started => Commit(ProcessEvent(Before, lastEvent'.event, lastEvent'.ok))]_vars

\* the step just taken handled this event in this handler
Handled(handler, event) ==
    lastEvent'.handler = handler /\ lastEvent'.event = event

\* the text in the scratch prompt buffer
PromptText == EditorToString(prompt_buffer)

\* C1: the edit mode is never a Prompt whose stored return mode is a Prompt.
NoNestedPrompt == ~(IsPrompt(edit_mode) /\ IsPrompt(edit_mode.mode))

\* C2: Ctrl+C sets exit in whatever mode it is pressed; once exit is set no
\* event is processed (so exit is never cleared); no other event sets exit.
ExitOnlyByQuit ==
    [][/\ ~exit
       /\ Handled("global", Ctrl("c")) => exit'
       /\ exit' => Handled("global", Ctrl("c"))]_vars

\* C2, the case: quit was pressed while a prompt was open
QuitInPrompt == exit /\ IsPrompt(edit_mode) /\ lastEvent.event = Ctrl("c")

\* C3: Escape in Prompt(m, a) sets the mode to m, empties the scratch buffer,
\* leaves document, cursor, file path and last search alone, writes no file.
EscapeCancelsPrompt ==
    [][IsPrompt(edit_mode) /\ Handled("prompt", Key("Esc")) =>
          /\ edit_mode' = edit_mode.mode
          /\ prompt_buffer' = EditorNew
          /\ UNCHANGED <<editor, filepath, last_search, disk>>]_vars

\* C3, the case: Escape left a prompt that was opened over another prompt
\* after a search had been run, with the document cursor off the origin
EscapedPrompt ==
    /\ lastEvent.handler = "prompt"
    /\ lastEvent.event = Key("Esc")
    /\ IsPrompt(edit_mode)
    /\ last_search # <<>>
    /\ CursorPos(editor) # <<0, 0>>

\* C4: Enter in Prompt(m, a) always ends in mode m with the scratch buffer
\* empty.
EnterRestoresMode ==
    [][IsPrompt(edit_mode) /\ Handled("prompt", Key("Enter")) =>
          /\ edit_mode' = edit_mode.mode
          /\ EditorToString(prompt_buffer') = <<>>]_vars

\* the files are as after writing the document to path, and nothing else
Wrote(path) ==
    /\ DOMAIN disk' = (DOMAIN disk) \cup {path}
    /\ disk'[path] = EditorToString(editor)
    /\ \A q \in (DOMAIN disk) \ {path} : disk'[q] = disk[q]

\* the write to path is done, unless the host refused it (then: a panic)
WroteUnlessRefused(path) ==
    /\ panicked' <=> (~lastEvent'.ok \/ path = <<>>)
    /\ ~panicked' => Wrote(path)
    /\ panicked' => disk' = disk

\* the step is Enter in a save-as prompt
SaveAsStep ==
    /\ IsPrompt(edit_mode)
    /\ Handled("prompt", Key("Enter"))
    /\ edit_mode.action = Some(SaveFileAs)

\* C5: Enter in a save-as prompt holding P writes the document to P and makes
\* P the remembered path; no other event changes the remembered path (not
\* Escape either), and Ctrl+S writes the document to the remembered path.
SaveAsSetsPath ==
    [][IF SaveAsStep
       THEN filepath' = PromptText /\ WroteUnlessRefused(PromptText)
       ELSE /\ filepath' = filepath
            /\ Handled("global", Ctrl("s")) => WroteUnlessRefused(filepath)]_vars

\* C5, the case: Ctrl+S wrote the document to a path set by a save-as
SavedToNewPath ==
    /\ lastEvent.event = Ctrl("s")
    /\ ~panicked
    /\ filepath # <<"a">>
    /\ disk[filepath] = EditorToString(editor)
    /\ disk[filepath] # disk[<<"a">>]

\* the step is a search_next for text, and r is what the buffer search gives
SearchLands(text, reverse) ==
    LET r == EditorSearch(editor, text, CursorPos(editor), reverse)
    IN  IF r.some
        THEN /\ CursorPos(editor') = r.val
             /\ ~Contains(render_opts.view, r.val) =>
                    Contains(render_opts'.view, r.val)
        ELSE /\ CursorPos(editor') = CursorPos(editor)
             /\ render_opts'.view.location = render_opts.view.location

\* C6: search_next moves the cursor to the match and, if the match was outside
\* the view, re-centres the view so that the match is inside it; no match
\* leaves cursor and view alone.
SearchShowsMatch ==
    [][/\ Handled("command", Char("n")) => SearchLands(last_search, FALSE)
       /\ Handled("command", Char("N")) => SearchLands(last_search, TRUE)
       /\ (/\ IsPrompt(edit_mode)
           /\ Handled("prompt", Key("Enter"))
           /\ edit_mode.action.some
           /\ edit_mode.action.val.kind = "Search")
          => SearchLands(PromptText, edit_mode.action.val.reverse)]_vars

\* the log reports a failure
ErrorLogged(l) == l # <<>> /\ Head(l) \in {"error copying: ", "error pasting: ",
                                          "error saving: "}

\* C7: a failing clipboard copy or paste does not end the loop: the failure
\* is logged, the document is as before, the loop reads on.
ClipboardFailureSurvived ==
    [][(\/ Handled("global", Ctrl("v")) /\ ~lastEvent'.ok
        \/ /\ Handled("command", Char("c"))
           /\ ~lastEvent'.ok
           /\ EditorCopy(editor).some)
       => /\ ~panicked'
          /\ ErrorLogged(log')
          /\ editor'.rows = editor.rows]_vars

\* C8: a failing file write does not end the loop: the failure is logged and
\* no success is, document and cursor are as before, the loop reads on.
WriteFailureSurvived ==
    [][(\/ Handled("global", Ctrl("s")) /\ ~WriteSucceeds(filepath, lastEvent'.ok)
        \/ SaveAsStep /\ ~WriteSucceeds(PromptText, lastEvent'.ok))
       => /\ ~panicked'
          /\ ErrorLogged(log')
          /\ editor' = editor]_vars

\* the step handled an event the current mode has no binding for
IgnoredKeyStep == lastEvent'.handler \in {"unbound", "other"}

\* the step handled a mouse event other than a button press
OtherMouseStep == lastEvent'.handler = "mouse" /\ lastEvent'.event.key # "Press"

\* C9 as claimed: an event without a binding (a key, a mouse event other than
\* a press, any other event) leaves every field unchanged, the log too.
UnboundEventsIgnored ==
    [][IgnoredKeyStep \/ OtherMouseStep => UNCHANGED <<Fields, disk, panicked>>]_vars

\* C9 as amended: a key without a binding and an event that is neither key nor
\* mouse leave every field unchanged and draw nothing; a mouse event other
\* than a press sets the log to "unknown mouse event" and changes nothing else.
UnboundKeysIgnored ==
    [][/\ IgnoredKeyStep => UNCHANGED <<Fields, disk, panicked>> /\ out' = <<>>
       /\ OtherMouseStep =>
             /\ log' = <<"unknown mouse event">>
             /\ out' = <<>>
             /\ UNCHANGED <<filepath, editor, clipboard, render_opts, exit,
                            edit_mode, last_search, prompt_buffer,
                            render_line_hint, render_break_line_hint,
                            cursor_hidden, disk, panicked>>]_vars

\* C9, the case: a key without a binding was pressed in a prompt that holds
\* text, after something was logged
UnboundKeyInPrompt ==
    /\ lastEvent.handler = "unbound"
    /\ IsPrompt(edit_mode)
    /\ PromptText # <<>>
    /\ log # <<>>

\* the rows redrawn by line-hinted renders, in order
RECURSIVE LineRows(_)
LineRows(o) ==
    IF o = <<>> THEN <<>>
    ELSE IF Head(o).kind = "line" THEN <<Head(o).line>> \o LineRows(Tail(o))
    ELSE LineRows(Tail(o))

\* a full frame was rendered
HasFull(o) == \E i \in 1..Len(o) : o[i].kind = "full"

\* the step typed a printable character in Insert mode
TypedStep == lastEvent'.handler = "insert" /\ lastEvent'.event.key = "Char"

InVerticalRange(view, L) ==
    /\ RLe(view.location[2], IntR(L))
    /\ RLt(IntR(L), RAddInt(view.location[2], view.height))

\* what a line-hinted render of row L draws in the present state
LineRender(L) == RenderLine(Before, L).out

\* C11 as claimed: a line-hinted render of a row L of the document paints row L
\* alone when L is in the view's vertical range, whatever the view's horizontal
\* offset, and paints nothing, neither a row nor the frame, when it is not.
LineRenderPaintsRowInRange ==
    started =>
        \A L \in 0..(Len(editor.rows) - 1) :
            IF InVerticalRange(render_opts.view, L)
            THEN LineRows(LineRender(L)) = <<L>> /\ ~HasFull(LineRender(L))
            ELSE LineRows(LineRender(L)) = <<>> /\ ~HasFull(LineRender(L))

\* the step handled one of the zoom keys of Command mode
ZoomStep ==
    /\ lastEvent'.handler = "command"
    /\ lastEvent'.event.key = "Char"
    /\ lastEvent'.event.ch \in {"_", "+", "="}

\* the view's centre point in buffer space, in tenths:
\* (location + (width/2, height/2)) * scale
BufferCentre(ro) ==
    <<Rat(CenterPoint(ro.view)[1].n * ro.scale, CenterPoint(ro.view)[1].d),
      Rat(CenterPoint(ro.view)[2].n * ro.scale, CenterPoint(ro.view)[2].d)>>

\* two f64 values are equal
REq(p, q) == p.n * q.d = q.n * p.d

\* the two render options have the same centre point in buffer space
SameBufferCentre(ro, ro2) ==
    /\ REq(BufferCentre(ro)[1], BufferCentre(ro2)[1])
    /\ REq(BufferCentre(ro)[2], BufferCentre(ro2)[2])

\* C12 as claimed: every zoom step of Command mode leaves the view's centre
\* point in buffer space where it was, the step that clamps the scale to 0
\* included.
ZoomPreservesCentre ==
    [][ZoomStep => SameBufferCentre(render_opts, render_opts')]_vars

\* C12 as amended: a zoom step that leaves the scale positive keeps the view's
\* centre point in buffer space; the zoom-in that clamps the scale to 0 leaves
\* the view's location as it was.
ZoomPreservesCentreUnlessClamped ==
    [][ZoomStep =>
          IF render_opts'.scale > 0
          THEN SameBufferCentre(render_opts, render_opts')
          ELSE /\ render_opts'.scale = 0
               /\ render_opts'.view.location = render_opts.view.location]_vars

\* C12, the case: a zoom-in clamped the scale to 0 in a view whose centre point
\* is not the origin
ClampedOffOrigin ==
    /\ lastEvent.handler = "command"
    /\ lastEvent.event = Char("+")
    /\ render_opts.scale = 0
    /\ \E i \in 1..2 : CenterPoint(render_opts.view)[i].n # 0

\* the view of a re-anchored on its centre point for the scale s2, as the zoom
\* arms do: origin = center_point * scale / s2 - center
ZoomTo(a, s2) == Reanchor([a EXCEPT !.render_opts.scale = s2], a.render_opts.scale)

\* the view location after the scale went to s2 and back
ThereAndBack(a, s2) ==
    ZoomTo(ZoomTo(a, s2), a.render_opts.scale).render_opts.view.location

\* the view of the example: location (10,10), 80x24, scale 1.0
ExampleView ==
    [Before EXCEPT !.render_opts =
        [view |-> [location |-> <<IntR(10), IntR(10)>>, width |-> 80, height |-> 24],
         scale |-> 10]]

\* C13: from any view the program reaches at a scale above 0, re-anchoring the
\* view for any other scale above 0 and then for the first scale again gives
\* back the view's location; so does the view at (10,10), 80x24, taken from
\* scale 1 to 2 and back.
ZoomRoundTrip ==
    /\ (started /\ render_opts.scale > 0) =>
          \A s2 \in 1..(10 + MaxZoom) :
              /\ REq(ThereAndBack(Before, s2)[1], render_opts.view.location[1])
              /\ REq(ThereAndBack(Before, s2)[2], render_opts.view.location[2])
    /\ ThereAndBack(ExampleView, 20) = <<IntR(10), IntR(10)>>

\* C13, the case: a view between the cells, at a scale that is neither 0 nor 1
ZoomedBetweenCells ==
    /\ started
    /\ render_opts.scale \notin {0, 10}
    /\ render_opts.view.location[1].d # 1

\* C14: the render scale is never negative, and a zoom-in step that would take
\* it to 0 or below leaves it at exactly 0.
ScaleNeverNegative ==
    /\ [](render_opts.scale >= 0)
    /\ [][(Handled("command", Char("+")) /\ render_opts.scale - 1 <= 0)
             => render_opts'.scale = 0]_vars

\* C14, the case: zoom-in was pressed and the scale is 0, the caret out of view
ZoomedInToZero ==
    /\ lastEvent.handler = "command"
    /\ lastEvent.event = Char("+")
    /\ render_opts.scale = 0
    /\ cursor_hidden

\* C15 as claimed: from the first render on, after every event the caret is
\* hidden exactly when the view rectangle does not contain the document cursor.
CaretShownIffInView ==
    started => (cursor_hidden <=> ~Contains(render_opts.view, CursorPos(editor)))

\* the rows without row y (counted from 0)
RemoveRow(rows, y) == SubSeq(rows, 1, y) \o SubSeq(rows, y + 2, Len(rows))

\* C16: delete_line removes exactly the row the cursor is on. With n >= 2 rows
\* and the cursor on row y the other rows stay, in order, and the cursor is at
\* column 0 of row y, or of the new last row if y was the last; a one-row
\* document becomes one empty row. There is always at least one row.
DeleteLineRemovesRow ==
    /\ [](Len(editor.rows) >= 1)
    /\ [][Handled("global", Ctrl("d")) =>
             IF Len(editor.rows) >= 2
             THEN /\ editor'.rows = RemoveRow(editor.rows, Y(CursorPos(editor)))
                  /\ CursorPos(editor') =
                        <<0, Min(Y(CursorPos(editor)), Len(editor.rows) - 2)>>
             ELSE editor'.rows = << <<>> >>]_vars

\* C16, the case: a line of a three-row document was deleted and the cursor is
\* on the second of the two rows left
DeletedRowOfThree ==
    /\ lastEvent.handler = "global"
    /\ lastEvent.event = Ctrl("d")
    /\ Len(editor.rows) = 2
    /\ CursorPos(editor) = <<0, 1>>

\* the keys of the global arms
GlobalKeyEvents ==
    {Key(k) : k \in {"CtrlDown", "CtrlUp", "CtrlRight", "CtrlLeft", "F1", "F5",
                     "Home", "End"}}
        \cup {Ctrl(c) : c \in {"c", "d", "a", "v", "l", "s", "x"}}

\* edit modes and scratch buffers to compare the present ones with
OtherModes ==
    {Command, Insert, Prompt(Command, Some(SaveFileAs)),
     Prompt(Insert, Some(Search(FALSE)))}

OtherBuffers == {EditorNew, EditorFrom(<<"a">>)}

\* the present state in another mode, with another scratch buffer
InMode(m, pb) == [Before EXCEPT !.edit_mode = m, !.prompt_buffer = pb]

\* b and c have the same document, document cursor, view location, exit flag
SameOutcome(b, c) ==
    /\ b.editor = c.editor
    /\ b.render_opts.view.location = c.render_opts.view.location
    /\ b.exit = c.exit

\* the global key left mode m and scratch buffer pb alone; Ctrl+X opened a
\* prompt over m and filled the scratch buffer with the file path
ModeUntouched(c, event, m, pb) ==
    IF event = Ctrl("x")
    THEN /\ c.edit_mode = Prompt(m, Some(SaveFileAs))
         /\ c.prompt_buffer = EditorMoveCursorTo(EditorFrom(filepath), "LineEnd")
    ELSE c.edit_mode = m /\ c.prompt_buffer = pb

\* C17: the global keys are handled before the mode is looked at. In any
\* state, in any other edit mode and with any other scratch buffer, a global
\* key leaves the same document, cursor, view location and exit flag, and
\* leaves the mode and the scratch buffer alone, except that Ctrl+X opens the
\* save-as prompt and fills the scratch buffer anew.
GlobalKeysIgnoreMode ==
    (started /\ ~exit /\ ~panicked) =>
        \A event \in GlobalKeyEvents, ok \in BOOLEAN, m \in OtherModes,
           pb \in OtherBuffers :
            /\ SameOutcome(ProcessKeyEvent(Before, event, ok),
                           ProcessKeyEvent(InMode(m, pb), event, ok))
            /\ ModeUntouched(ProcessKeyEvent(InMode(m, pb), event, ok), event, m, pb)

\* C17, the case: a line was deleted by the global key while a prompt with
\* text in it was open
GlobalKeyInPrompt ==
    /\ lastEvent.handler = "global"
    /\ lastEvent.event = Ctrl("d")
    /\ IsPrompt(edit_mode)
    /\ PromptText # <<>>

\* Backspace was pressed in Insert mode
BackspaceStep == Handled("insert", Key("Backspace"))

\* the state in which the Backspace arm calls render, before anything is drawn
AfterDelete == UpdateViewSize([Before EXCEPT !.editor = EditorDelete(editor).editor])

\* C18: in Insert mode Backspace draws what a line-hinted render of the
\* cursor's new row draws exactly when it deleted a character other than the
\* row separator; when it deleted the row separator, or nothing, it renders
\* the full frame.
BackspaceRedraw ==
    [][BackspaceStep =>
          IF EditorDelete(editor).cell.some /\ EditorDelete(editor).cell.val # NL
          THEN /\ editor' = EditorDelete(editor).editor
               /\ out' = RenderLine(AfterDelete, Y(CursorPos(editor'))).out
               /\ Contains(render_opts'.view, <<0, Y(CursorPos(editor'))>>)
                     => (LineRows(out') = <<Y(CursorPos(editor'))>> /\ ~HasFull(out'))
          ELSE HasFull(out') /\ LineRows(out') = <<>>]_vars

\* C18, the case: Backspace deleted a character and the cursor's row alone was
\* redrawn
BackspacedInRow ==
    /\ lastEvent.handler = "insert"
    /\ lastEvent.event = Key("Backspace")
    /\ LineRows(out) = <<Y(CursorPos(editor))>>
    /\ ~HasFull(out)

\* the rows with an empty row put in before row y (counted from 0)
InsertRow(rows, y) == SubSeq(rows, 1, y) \o << <<>> >> \o SubSeq(rows, y + 1, Len(rows))

\* C19 as claimed: in Command mode 'O' with the cursor on row y, the first row
\* included, opens an empty row above it: the new row is row y, the rows from y
\* on move down by one, the cursor is at column 0 of row y, the mode is Insert.
OpenAboveOpensRowAbove ==
    [][Handled("command", Char("O")) =>
          /\ editor'.rows = InsertRow(editor.rows, Y(CursorPos(editor)))
          /\ CursorPos(editor') = <<0, Y(CursorPos(editor))>>
          /\ edit_mode' = Insert]_vars

\* C20 as claimed: Ctrl+A puts the document cursor at column 0 of the top row
\* of the view, row view.location.y, clamped into the document, in every mode.
JumpToViewTop ==
    [][Handled("global", Ctrl("a")) =>
          CursorPos(editor') =
              Clamp(editor.rows, <<0, Trunc(Y(render_opts.view.location))>>)]_vars

\* the Show and Hide commands among the terminal commands o, in order
CaretCommands(o) == SelectSeq(o, LAMBDA c : c.kind \in {"show", "hide"})

\* the caret commands s, issued one after the other on a caret that is hidden
\* or not, each change what the caret is: a Show finds it hidden, a Hide shown
RECURSIVE Alternate(_, _)
Alternate(hidden, s) ==
    \/ s = <<>>
    \/ /\ Head(s).kind = (IF hidden THEN "show" ELSE "hide")
       /\ Alternate(~hidden, Tail(s))

\* whether the caret is hidden after the caret commands s
HiddenAfter(hidden, s) == IF s = <<>> THEN hidden ELSE s[Len(s)].kind = "hide"

\* C21: the caret starts shown; over any sequence of events the Show and Hide
\* commands alternate, a Show issued only on a hidden caret and a Hide only on
\* a shown one, and cursor_hidden says after each event what the caret is.
CaretCommandsAlternate ==
    /\ ~cursor_hidden
    /\ [][/\ Alternate(cursor_hidden, CaretCommands(out'))
          /\ cursor_hidden' = HiddenAfter(cursor_hidden, CaretCommands(out'))]_vars

\* C21, the case: one event hid the caret and showed it again, a search whose
\* match lay outside the view
CaretHiddenAndShown ==
    /\ lastEvent.handler \in {"command", "prompt"}
    /\ Len(CaretCommands(out)) >= 2
    /\ HasFull(out)

\* the mode is a prompt whose action is a search, forward or reverse
InSearchPrompt(m) == IsPrompt(m) /\ m.action.some /\ m.action.val.kind = "Search"

\* the step commits a search prompt
SearchCommitStep == InSearchPrompt(edit_mode) /\ Handled("prompt", Key("Enter"))

\* Up was pressed in a prompt
RecallStep == IsPrompt(edit_mode) /\ Handled("prompt", Key("Up"))

\* C22: last_search is the text of the search executed last (a committed
\* search prompt sets it to the prompt's text, 'n' and 'N' search for it and
\* nothing else changes it; it starts empty). Up in a search prompt makes the
\* scratch buffer that text with the scratch cursor at its end, and leaves
\* document, mode and last search alone; Up in a save-as prompt changes nothing
\* and draws nothing.
UpRecallsLastSearch ==
    /\ last_search = <<>>
    /\ [][/\ last_search' = (IF SearchCommitStep THEN PromptText ELSE last_search)
          /\ RecallStep =>
                IF InSearchPrompt(edit_mode)
                THEN /\ EditorToString(prompt_buffer') = last_search
                     /\ CursorPos(prompt_buffer') = <<Len(last_search), 0>>
                     /\ UNCHANGED <<editor, edit_mode, last_search, filepath, disk>>
                ELSE UNCHANGED <<Fields, disk, panicked>> /\ out' = <<>>]_vars

\* C22, the case: Up recalled the text of a search that was executed before
\* into a search prompt
RecalledSearch ==
    /\ lastEvent.handler = "prompt"
    /\ lastEvent.event = Key("Up")
    /\ InSearchPrompt(edit_mode)
    /\ last_search # <<>>
    /\ PromptText = last_search

\* every Prompt of the mode m, m itself and the prompts it is stored over,
\* whose action is a search has Command as its stored return mode
RECURSIVE SearchOverCommand(_)
SearchOverCommand(m) ==
    IsPrompt(m) =>
        /\ InSearchPrompt(m) => m.mode = Command
        /\ SearchOverCommand(m.mode)

\* C24: every Prompt whose action is a search stores Command as its return
\* mode, and a search key pressed in any mode of any state the program reaches
\* keeps it so (the key opens a search prompt in Command mode alone); Enter and
\* Escape in a search prompt end in Command mode.
SearchPromptFromCommand ==
    /\ [](/\ SearchOverCommand(edit_mode)
          /\ (started /\ ~exit /\ ~panicked) =>
                \A c \in {"/", "?"} :
                    LET b == ProcessKeyEvent(Before, Char(c), TRUE)
                    IN  /\ SearchOverCommand(b.edit_mode)
                        /\ b.edit_mode =
                              (IF edit_mode = Command
                               THEN Prompt(Command, Some(Search(c = "?")))
                               ELSE edit_mode))
    /\ [][(/\ InSearchPrompt(edit_mode)
           /\ lastEvent'.handler = "prompt"
           /\ lastEvent'.event.key \in {"Enter", "Esc"})
          => edit_mode' = Command]_vars

\* C24, the case: a search prompt with a save-as prompt opened over it
SearchPromptUnderSaveAs ==
    /\ IsPrompt(edit_mode)
    /\ edit_mode.action = Some(SaveFileAs)
    /\ InSearchPrompt(edit_mode.mode)

\* C25: whenever the edit mode is Command or Insert the scratch prompt buffer
\* is the empty editor; so a search key in Command mode opens a search prompt
\* whose scratch buffer is empty, while Ctrl+X opens the save-as prompt with
\* the file path in the scratch buffer and the scratch cursor at its end.
ScratchEmptyOutsidePrompt ==
    /\ [](edit_mode \in {Command, Insert} => prompt_buffer = EditorNew)
    /\ [][/\ (Handled("command", Char("/")) \/ Handled("command", Char("?")))
                => InSearchPrompt(edit_mode') /\ prompt_buffer' = EditorNew
          /\ Handled("global", Ctrl("x"))
                => /\ edit_mode'.action = Some(SaveFileAs)
                   /\ EditorToString(prompt_buffer') = filepath
                   /\ CursorPos(prompt_buffer') = <<Len(filepath), 0>>]_vars

\* C25, the case: a search prompt was opened, its scratch buffer empty, after
\* a save-as prompt had been filled with another path and committed
ScratchClearedBeforeSearch ==
    /\ lastEvent.handler = "command"
    /\ lastEvent.event = Char("/")
    /\ InSearchPrompt(edit_mode)
    /\ prompt_buffer = EditorNew
    /\ filepath # <<"a">>

\* the zoom keys of Command mode
ZoomKeys == {"_", "+", "="}

\* the divisors transform_view_coordinates is given when zoom key c is pressed
\* in the present state
ZoomDivisors(c) == ProcessCommandMode(Before, Char(c), TRUE).divisors

\* C26: transform_view_coordinates is never called with a new scale of 0, or
\* below, as its divisor: not for the event just handled, and not by any zoom
\* key pressed in a state the program reaches. Zoom out and reset call it once,
\* zoom in calls it once unless it clamps the scale to 0, and then not at all.
DivisorAlwaysPositive ==
    /\ \A i \in 1..Len(divisors) : divisors[i] > 0
    /\ (started /\ edit_mode = Command) =>
          \A c \in ZoomKeys :
              /\ \A i \in 1..Len(ZoomDivisors(c)) : ZoomDivisors(c)[i] > 0
              /\ Len(ZoomDivisors(c)) =
                    (IF c = "+" /\ render_opts.scale - 1 <= 0 THEN 0 ELSE 1)

\* C26, the case: the view was zoomed out from scale 0 and re-anchored with the
\* divisor 0.1
ZoomedOutFromZero ==
    /\ lastEvent.handler = "command"
    /\ lastEvent.event = Char("_")
    /\ render_opts.scale = 1
    /\ divisors = <<1>>

\* what a full-frame render of the present document and view writes
FullFrame == StringRendererRender(editor, render_opts, None, FALSE)

\* C23 as claimed: from the first frame on, after every event the text area of
\* the terminal, written by full-frame and line-hinted renders, shows what a
\* full-frame render of the present document and view shows, whatever the
\* view's location and scale (the help screen of F1 is never opened here).
DisplayConsistent == started => screen = FullFrame

\* neither render hint is set in b
HintsClear(b) == b.render_line_hint = None /\ ~b.render_break_line_hint

\* events whose handlers set render hints (typing, Backspace, cursor moves
\* while selecting) or render without one
HintEvents ==
    {Key(k) : k \in {"Down", "Left", "Backspace", "Enter"}}
        \cup {Char("a"), Ctrl("a"), Press(0, 1)}

\* the state after the events e1 and e2 are handled one after the other
AfterBoth(e1, e2) == ProcessEvent(ProcessEvent(Before, e1, TRUE), e2, TRUE)

\* the terminal commands o draw the frame and no single line
OnlyFrame(o) == HasFull(o) /\ LineRows(o) = <<>>

\* neither hint is set in b, and the render F5 forces in b draws the frame
NoHintLeft(b) ==
    /\ HintsClear(b)
    /\ OnlyFrame(ProcessEvent([b EXCEPT !.out = <<>>], Key("F5"), TRUE).out)

\* C27: no render hint outlives the event that set it. Neither hint is set
\* in any state the program reaches, nor after any key or mouse event handled
\* in such a state, be it handled right away or after a selection was begun
\* with 'v'; so the render F5 forces next draws the frame and no single line.
RenderHintsNeverLeak ==
    /\ HintsClear(App)
    /\ (started /\ ~exit /\ ~panicked) =>
          \A e1 \in {Unsupported, Char("v")}, e2 \in HintEvents :
              NoHintLeft(AfterBoth(e1, e2))

\* C27, the case: a character was typed on a row that render_line found
\* outside the view and after it: the hints were set, nothing was drawn
HintDroppedUndrawn ==
    /\ lastEvent.handler = "insert"
    /\ lastEvent.event.key = "Char"
    /\ LineRows(out) = <<>>
    /\ ~HasFull(out)
    /\ HintsClear(App)

====
